---- MODULE Spec2Model ----
(***************************************************************************)
(* Model of the order service in src/express-app/app.js: seven route       *)
(* handlers over one mariadb connection pool and the orders table.         *)
(*                                                                         *)
(* Every handler is an async function.  It runs synchronously up to its    *)
(* first await (pool.getConnection), resumes when the connection is        *)
(* handed out, issues its single statement, and resumes again when the     *)
(* statement's result comes back; the code after the last await (res.json  *)
(* or the catch block, then the finally block) runs without interruption.  *)
(* The model has one action per such uninterrupted stretch, plus the       *)
(* database executing a statement.                                         *)
(*                                                                         *)
(* The database and the driver are not part of the repository.  They are   *)
(* modelled by what the handlers rely on: a statement is applied           *)
(* atomically or rejected without effect, acquisition and statements may   *)
(* fail at any time, and result.insertId is the value of the               *)
(* AUTO_INCREMENT column of the inserted row (0 when the table has none;   *)
(* the schema is not in the repository, so both are possible).             *)
(* Field values are abstract: a positive number is a well-formed value,    *)
(* BAD a malformed one, ABSENT a missing field, NULL an SQL NULL.          *)
(***************************************************************************)
EXTENDS Integers, Sequences, FiniteSets, TLC

\* ----------------------------------------------------------------------
\* Bounds and domains
\* ----------------------------------------------------------------------
MaxRows == 2          \* rows the orders table may hold
MaxConc == 2          \* requests in flight at once in SpecConc

connectionLimit == 10 \* app.js:19

NULL == 0
BAD == -1
ABSENT == -2

OrdNos == {1, 2}
Amts == {1, 2}
Dates == {1, 2}
Custs == {1}

Slots == 1 .. MaxConc

Rows == [ord_no : OrdNos, purch_amt : Amts \cup {NULL}, ord_date : Dates,
         customer_id : Custs]

NoRow == [ord_no |-> NULL, purch_amt |-> NULL, ord_date |-> NULL,
          customer_id |-> NULL]

NoBody == [ord_no |-> ABSENT, purch_amt |-> ABSENT, ord_date |-> ABSENT,
           customer_id |-> ABSENT]

\* Request bodies a client may send to POST /orders and PUT /orders/:id:
\* every well-formed body, and every way of getting fields of one body wrong.
ValidBodies == [ord_no : OrdNos, purch_amt : Amts, ord_date : Dates,
                customer_id : Custs]

Bodies == ValidBodies
          \cup [ord_no : {1, BAD}, purch_amt : {1, BAD, ABSENT},
                ord_date : {1, BAD}, customer_id : {1, BAD}]

\* Request bodies a client may send to PATCH /orders/:id (only purch_amt is
\* read by the handler).
PatchBodies == {[NoBody EXCEPT !.purch_amt = a] : a \in Amts \cup {BAD, ABSENT}}

Requests ==
    {[op |-> o, id |-> 0, body |-> NoBody] : o \in {"GET /users", "GET /orders"}}
    \cup {[op |-> o, id |-> i, body |-> NoBody] :
             o \in {"GET /orders/:id", "DELETE /orders/:id"}, i \in OrdNos}
    \cup {[op |-> "POST /orders", id |-> 0, body |-> b] : b \in Bodies}
    \cup {[op |-> "PATCH /orders/:id", id |-> i, body |-> b] :
             i \in OrdNos, b \in PatchBodies}
    \cup {[op |-> "PUT /orders/:id", id |-> i, body |-> b] :
             i \in OrdNos, b \in Bodies}

NoReq == [op |-> "none", id |-> 0, body |-> NoBody]

\* The customer table, which the service only reads.
customer == [i \in 1 .. 12 |-> i]

VARIABLES
    store,      \* the orders table: a sequence of rows, in storage order
    pool,       \* slots whose connection is checked out of the pool
    pc,         \* where each request's handler is suspended
    req,        \* each slot's request
    conn,       \* each handler's local variable conn (TRUE once assigned)
    result,     \* what the driver will hand back for the issued statement
    res,        \* the response sent by each handler
    tr,         \* each handler's calls, in order
    snapshot    \* the orders table when the requests now tracked began

vars == <<store, pool, pc, req, conn, result, res, tr, snapshot>>

\* ----------------------------------------------------------------------
\* express-validator rules (on abstract values)
\* ----------------------------------------------------------------------
isNumeric(v) == v > 0
isFloat(v) == v > 0
isISO8601(v) == v > 0
notEmpty(v) == v > 0

\* body(...).optional(): the rule is skipped when the field is missing.
optional(v, ok) == v = ABSENT \/ ok

\* A rule set that forgets customer_id.
OrderErrorsNoCustomer(b) ==
    (IF isNumeric(b.ord_no) THEN <<>> ELSE <<"ord_no">>)
    \o (IF isFloat(b.purch_amt) THEN <<>> ELSE <<"purch_amt">>)
    \o (IF isISO8601(b.ord_date) THEN <<>> ELSE <<"ord_date">>)

\* validationResult(req).array() for POST /orders and PUT /orders/:id:
\* the violated fields, in the order of the chains.
OrderErrors(b) ==
    (IF isNumeric(b.ord_no) THEN <<>> ELSE <<"ord_no">>)
    \o (IF isFloat(b.purch_amt) THEN <<>> ELSE <<"purch_amt">>)
    \o (IF isISO8601(b.ord_date) THEN <<>> ELSE <<"ord_date">>)
    \o (IF notEmpty(b.customer_id) THEN <<>> ELSE <<"customer_id">>)

\* validationResult(req).array() for PATCH /orders/:id.
PatchErrors(b) ==
    IF optional(b.purch_amt, isFloat(b.purch_amt)) THEN <<>> ELSE <<"purch_amt">>

\* The violations of a request; routes without validators have none.
errors(q) ==
    CASE q.op \in {"POST /orders", "PUT /orders/:id"} -> OrderErrors(q.body)
      [] q.op = "PATCH /orders/:id" -> PatchErrors(q.body)
      [] OTHER -> <<>>

\* ----------------------------------------------------------------------
\* The statements, as the database applies them to the orders table
\* ----------------------------------------------------------------------
\* WHERE ord_no = ?
Matches(row, id) == row.ord_no = id

\* SELECT * FROM customer LIMIT 10
SelectCustomers == SubSeq(customer, 1, IF Len(customer) < 10 THEN Len(customer) ELSE 10)

\* SELECT * FROM orders
SelectOrders(s) == s

\* A SELECT by order number that returns the newest matching row first.
SelectOrderNewestFirst(s, id) ==
    LET m == SelectSeq(s, LAMBDA row : Matches(row, id))
    IN  [i \in 1 .. Len(m) |-> m[Len(m) + 1 - i]]

\* SELECT * FROM orders WHERE ord_no = ?
SelectOrder(s, id) == SelectSeq(s, LAMBDA row : Matches(row, id))

\* The row INSERT stores for the parameters [ord_no, purch_amt, ord_date, customer_id].
InsertedRow(b) ==
    [ord_no |-> b.ord_no, purch_amt |-> b.purch_amt, ord_date |-> b.ord_date,
     customer_id |-> b.customer_id]

\* INSERT INTO orders (ord_no, purch_amt, ord_date, customer_id) VALUES (?, ?, ?, ?)
InsertOrder(s, b) == Append(s, InsertedRow(b))

\* A parameter that is undefined in the handler is bound as SQL NULL.
Param(v) == IF v = ABSENT THEN NULL ELSE v

\* An UPDATE of purch_amt without its WHERE clause.
UpdateAmtAll(s, id, b) ==
    [i \in 1 .. Len(s) |-> [s[i] EXCEPT !.purch_amt = Param(b.purch_amt)]]

\* UPDATE orders SET purch_amt = ? WHERE ord_no = ?
UpdateAmt(s, id, b) ==
    [i \in 1 .. Len(s) |->
        IF Matches(s[i], id) THEN [s[i] EXCEPT !.purch_amt = Param(b.purch_amt)]
        ELSE s[i]]

\* A replace that leaves ord_no alone.
UpdateOrderKeepKey(s, id, b) ==
    [i \in 1 .. Len(s) |->
        IF Matches(s[i], id) THEN [InsertedRow(b) EXCEPT !.ord_no = s[i].ord_no]
        ELSE s[i]]

\* UPDATE orders SET ord_no = ?, purch_amt = ?, ord_date = ?, customer_id = ?
\* WHERE ord_no = ?
UpdateOrder(s, id, b) ==
    [i \in 1 .. Len(s) |-> IF Matches(s[i], id) THEN InsertedRow(b) ELSE s[i]]

\* A DELETE without its WHERE clause.
DeleteAll(s, id) == <<>>

\* DELETE FROM orders WHERE ord_no = ?
DeleteOrder(s, id) == SelectSeq(s, LAMBDA row : ~Matches(row, id))

\* The table after the statement of request q.
Statement(s, q) ==
    CASE q.op = "POST /orders" -> InsertOrder(s, q.body)
      [] q.op = "PATCH /orders/:id" -> UpdateAmt(s, q.id, q.body)
      [] q.op = "PUT /orders/:id" -> UpdateOrder(s, q.id, q.body)
      [] q.op = "DELETE /orders/:id" -> DeleteOrder(s, q.id)
      [] OTHER -> s

\* result.insertId: the AUTO_INCREMENT value of the inserted row, 0 when the
\* table has no AUTO_INCREMENT column.
insertId(b, ai) == IF ai THEN b.ord_no ELSE 0

NoResult == [ok |-> FALSE, rows |-> <<>>, users |-> 0, insertId |-> 0]

\* What conn.query resolves to for request q on table s.
QueryResult(s, q, ai) ==
    CASE q.op = "GET /users" ->
            [NoResult EXCEPT !.ok = TRUE, !.users = Len(SelectCustomers)]
      [] q.op = "GET /orders" ->
            [NoResult EXCEPT !.ok = TRUE, !.rows = SelectOrders(s)]
      [] q.op = "GET /orders/:id" ->
            [NoResult EXCEPT !.ok = TRUE, !.rows = SelectOrder(s, q.id)]
      [] q.op = "POST /orders" ->
            [NoResult EXCEPT !.ok = TRUE, !.insertId = insertId(q.body, ai)]
      [] OTHER -> [NoResult EXCEPT !.ok = TRUE]

\* ----------------------------------------------------------------------
\* The responses
\* ----------------------------------------------------------------------
NoRes == [status |-> 0, message |-> "", row |-> NoRow, rows |-> <<>>, users |-> 0,
          orderId |-> 0, errors |-> <<>>]

\* res.status(400).json({ errors: errors.array() })
Res400(errs) == [NoRes EXCEPT !.status = 400, !.errors = errs]

\* A catch block that forgets status(500).
Res500AsOk == [NoRes EXCEPT !.status = 200, !.message = "error"]

\* res.status(500).send(err.toString())
Res500 == [NoRes EXCEPT !.status = 500, !.message = "error"]

\* The response each handler sends once its statement has succeeded.
ResOk(q, r) ==
    CASE q.op = "GET /users" -> [NoRes EXCEPT !.status = 200, !.users = r.users]
      [] q.op = "GET /orders" -> [NoRes EXCEPT !.status = 200, !.rows = r.rows]
      [] q.op = "GET /orders/:id" ->
            IF Len(r.rows) > 0
            THEN [NoRes EXCEPT !.status = 200, !.row = r.rows[1]]
            ELSE [NoRes EXCEPT !.status = 404, !.message = "Order not found"]
      [] q.op = "POST /orders" ->
            [NoRes EXCEPT !.status = 201, !.message = "Order created",
                          !.orderId = r.insertId]
      [] q.op = "PATCH /orders/:id" ->
            [NoRes EXCEPT !.status = 200, !.message = "Order updated"]
      [] q.op = "PUT /orders/:id" ->
            [NoRes EXCEPT !.status = 200, !.message = "Order replaced"]
      [] OTHER -> [NoRes EXCEPT !.status = 200, !.message = "Order deleted"]

\* ----------------------------------------------------------------------
\* The handlers
\* ----------------------------------------------------------------------
\* tr records what the handler does, in order: "getConnection" (resolved),
\* "query" (the statement is issued), "catch" (the catch block is entered),
\* "res" (the response is sent), "end" (conn.end(): the connection goes back
\* to the pool).
Count(t, e) == Cardinality({i \in 1 .. Len(t) : t[i] = e})

\* A finally block that never gives the connection back.
FinallyLeak(t, c) == t

\* finally { if (conn) conn.end(); }
Finally(t, c) == IF c THEN Append(t, "end") ELSE t

\* A catch block that runs after the finally block.
CatchAfterFinally(t, c) == Finally(t, c) \o <<"catch", "res">>

\* try { ...; res.json(...) } finally { ... } once the statement has
\* succeeded: the response first, then the finally block.
Respond(t, c) == Finally(Append(t, "res"), c)

\* catch (err) { res.status(500).send(...) } finally { ... } once the
\* acquisition or the statement has failed: the response first, then the
\* finally block.
Catch(t, c) == Finally(t \o <<"catch", "res">>, c)

\* The handler up to its first await: the validators, the 400 response when
\* they report errors, otherwise the call of pool.getConnection().
Begin(r, q) ==
    /\ req' = [req EXCEPT ![r] = q]
    /\ conn' = [conn EXCEPT ![r] = FALSE]
    /\ result' = [result EXCEPT ![r] = NoResult]
    /\ IF errors(q) # <<>>
       THEN /\ res' = [res EXCEPT ![r] = Res400(errors(q))]
            /\ tr' = [tr EXCEPT ![r] = <<"res">>]
            /\ pc' = [pc EXCEPT ![r] = "done"]
       ELSE /\ res' = [res EXCEPT ![r] = NoRes]
            /\ tr' = [tr EXCEPT ![r] = <<>>]
            /\ pc' = [pc EXCEPT ![r] = "getConnection"]
    /\ UNCHANGED <<store, pool>>

\* A client sends a request once the previous one has been answered.
Request(r) ==
    /\ r = 1
    /\ \A s \in Slots : pc[s] = "idle"
    /\ \E q \in Requests : Begin(r, q)
    /\ snapshot' = store

\* The client has read the response; the handler's locals are gone.
Forget(r) ==
    /\ pc[r] = "done"
    /\ \A s \in Slots \ {r} : pc[s] = "idle"
    /\ pc' = [pc EXCEPT ![r] = "idle"]
    /\ req' = [req EXCEPT ![r] = NoReq]
    /\ conn' = [conn EXCEPT ![r] = FALSE]
    /\ result' = [result EXCEPT ![r] = NoResult]
    /\ res' = [res EXCEPT ![r] = NoRes]
    /\ tr' = [tr EXCEPT ![r] = <<>>]
    /\ snapshot' = store
    /\ UNCHANGED <<store, pool>>

\* conn = await pool.getConnection() resolves; the handler goes on to
\* conn.query(...) and is suspended there.
Acquired(r) ==
    /\ pc[r] = "getConnection"
    /\ Cardinality(pool) < connectionLimit
    /\ pool' = pool \cup {r}
    /\ conn' = [conn EXCEPT ![r] = TRUE]
    /\ tr' = [tr EXCEPT ![r] = tr[r] \o <<"getConnection", "query">>]
    /\ pc' = [pc EXCEPT ![r] = "query"]
    /\ UNCHANGED <<store, req, result, res, snapshot>>

\* await pool.getConnection() rejects (pool exhausted until acquireTimeout,
\* connection failure): catch, then finally with conn undefined.
AcquireFailed(r) ==
    /\ pc[r] = "getConnection"
    /\ res' = [res EXCEPT ![r] = Res500]
    /\ tr' = [tr EXCEPT ![r] = Catch(tr[r], conn[r])]
    /\ pool' = IF Count(tr'[r], "end") > 0 THEN pool \ {r} ELSE pool
    /\ pc' = [pc EXCEPT ![r] = "done"]
    /\ UNCHANGED <<store, req, conn, result, snapshot>>

\* A statement computed from the table as it was when the requests began.
ExecuteStale(r) ==
    /\ pc[r] = "query"
    /\ req[r].op = "POST /orders" => Len(store) < MaxRows
    /\ store' = Statement(snapshot, req[r])
    /\ \E ai \in BOOLEAN :
          result' = [result EXCEPT ![r] = QueryResult(snapshot, req[r], ai)]
    /\ pc' = [pc EXCEPT ![r] = "reply"]
    /\ UNCHANGED <<pool, req, conn, res, tr, snapshot>>

\* The database applies the statement, atomically.  A table that already
\* holds MaxRows rows takes no further INSERT (it can only be rejected).
Execute(r) ==
    /\ pc[r] = "query"
    /\ req[r].op = "POST /orders" => Len(store) < MaxRows
    /\ store' = Statement(store, req[r])
    /\ \E ai \in BOOLEAN :
          result' = [result EXCEPT ![r] = QueryResult(store, req[r], ai)]
    /\ pc' = [pc EXCEPT ![r] = "reply"]
    /\ UNCHANGED <<pool, req, conn, res, tr, snapshot>>

\* The database rejects the statement (constraint violation, connectivity
\* loss, timeout); the table is as it was.
Reject(r) ==
    /\ pc[r] = "query"
    /\ result' = [result EXCEPT ![r] = NoResult]
    /\ pc' = [pc EXCEPT ![r] = "reply"]
    /\ UNCHANGED <<store, pool, req, conn, res, tr, snapshot>>

\* await conn.query(...) settles: the rest of the try block or the catch
\* block, then the finally block.
Resume(r) ==
    /\ pc[r] = "reply"
    /\ res' = [res EXCEPT ![r] = IF result[r].ok THEN ResOk(req[r], result[r])
                                 ELSE Res500]
    /\ tr' = [tr EXCEPT ![r] = IF result[r].ok THEN Respond(tr[r], conn[r])
                               ELSE Catch(tr[r], conn[r])]
    /\ pool' = IF Count(tr'[r], "end") > 0 THEN pool \ {r} ELSE pool
    /\ pc' = [pc EXCEPT ![r] = "done"]
    /\ UNCHANGED <<store, req, conn, result, snapshot>>

Init ==
    /\ store = <<>>
    /\ pool = {}
    /\ pc = [r \in Slots |-> "idle"]
    /\ req = [r \in Slots |-> NoReq]
    /\ conn = [r \in Slots |-> FALSE]
    /\ result = [r \in Slots |-> NoResult]
    /\ res = [r \in Slots |-> NoRes]
    /\ tr = [r \in Slots |-> <<>>]
    /\ snapshot = store

Next ==
    \E r \in Slots :
        \/ Request(r)
        \/ Acquired(r)
        \/ AcquireFailed(r)
        \/ Execute(r)
        \/ Reject(r)
        \/ Resume(r)
        \/ Forget(r)

Spec == Init /\ [][Next]_vars

\* ----------------------------------------------------------------------
\* Concurrent requests
\* ----------------------------------------------------------------------
\* Well-formed requests of all seven routes on order number 1, sent while
\* others are in flight.
ConcBodies == {b \in ValidBodies : b.purch_amt = 2 /\ b.ord_date = 2}

ConcRequests ==
    {q \in Requests :
        /\ q.id \in {0, 1}
        /\ q.body \in ConcBodies \cup {NoBody, [NoBody EXCEPT !.purch_amt = 2]}
        /\ errors(q) = <<>>}

\* The orders table the concurrent requests find.
ConcStores ==
    {<<>>,
     <<[ord_no |-> 1, purch_amt |-> 1, ord_date |-> 1, customer_id |-> 1]>>}

\* A client sends a request whatever the state of the others.
ConcRequest(r) ==
    /\ pc[r] = "idle"
    /\ \A s \in Slots : s < r => pc[s] # "idle"
    /\ \E q \in ConcRequests : Begin(r, q)
    /\ UNCHANGED snapshot

InitConc ==
    /\ store \in ConcStores
    /\ pool = {}
    /\ pc = [r \in Slots |-> "idle"]
    /\ req = [r \in Slots |-> NoReq]
    /\ conn = [r \in Slots |-> FALSE]
    /\ result = [r \in Slots |-> NoResult]
    /\ res = [r \in Slots |-> NoRes]
    /\ tr = [r \in Slots |-> <<>>]
    /\ snapshot = store

NextConc ==
    \E r \in Slots :
        \/ ConcRequest(r)
        \/ Acquired(r)
        \/ AcquireFailed(r)
        \/ Execute(r)
        \/ Reject(r)
        \/ Resume(r)

SpecConc == InitConc /\ [][NextConc]_vars

\* ----------------------------------------------------------------------
\* Vocabulary of the properties
\* ----------------------------------------------------------------------
Done(r) == pc[r] = "done"

\* The handler's try block threw: the acquisition or the statement failed.
Failed(r) == Count(tr[r], "catch") > 0

\* The acquisition succeeded and the statement failed.
StatementFailed(r) == Failed(r) /\ Count(tr[r], "getConnection") > 0

\* The request ran its statement and nothing failed.
Succeeded(r) == Done(r) /\ Count(tr[r], "query") > 0 /\ ~Failed(r)

\* Position of the first event e in trace t (0 when absent).
Pos(t, e) ==
    IF Count(t, e) = 0 THEN 0
    ELSE CHOOSE i \in 1 .. Len(t) : t[i] = e /\ \A j \in 1 .. i - 1 : t[j] # e

\* Table s holds an order with order number id.
Has(s, id) == \E i \in 1 .. Len(s) : s[i].ord_no = id

\* The first row of table s with order number id.
First(s, id) ==
    s[CHOOSE i \in 1 .. Len(s) :
        s[i].ord_no = id /\ \A j \in 1 .. i - 1 : s[j].ord_no # id]

\* The response of GET /orders/{id} on table s when storage does not fail.
GetOrder(s, id) ==
    LET q == [op |-> "GET /orders/:id", id |-> id, body |-> NoBody]
    IN  ResOk(q, QueryResult(s, q, FALSE))

\* The body breaks a validation rule of its route.
Violates(q) ==
    \/ /\ q.op \in {"POST /orders", "PUT /orders/:id"}
       /\ \E v \in {q.body.ord_no, q.body.purch_amt, q.body.ord_date,
                    q.body.customer_id} : v \in {BAD, ABSENT}
    \/ /\ q.op = "PATCH /orders/:id"
       /\ q.body.purch_amt = BAD

\* ----------------------------------------------------------------------
\* Properties
\* ----------------------------------------------------------------------

\* C1: in every handler a successful acquire is followed by exactly one
\* release on every exit path, no release happens when the acquire failed,
\* and a finished request holds no connection: at any time the connections
\* checked out are those of the handlers between their acquire and their
\* release.
C1_ReleaseOncePerAcquire ==
    /\ \A r \in Slots :
          /\ Count(tr[r], "getConnection") <= 1
          /\ Count(tr[r], "end") <= Count(tr[r], "getConnection")
          /\ Done(r) => /\ Count(tr[r], "end") = Count(tr[r], "getConnection")
                        /\ r \notin pool
    /\ pool = {r \in Slots : Count(tr[r], "getConnection") = 1
                             /\ Count(tr[r], "end") = 0}

\* Two exit paths at once: one request has answered 404 and one has had its
\* statement rejected, both have released, and nothing is checked out.
C1_Witness ==
    /\ pool = {}
    /\ \E r \in Slots : Done(r) /\ res[r].status = 404 /\ Count(tr[r], "end") = 1
    /\ \E r \in Slots : Done(r) /\ StatementFailed(r) /\ Count(tr[r], "end") = 1

\* C2: a POST, PATCH or PUT whose body breaks a validation rule is answered
\* 400 without acquiring a connection or issuing a statement; the table is
\* unchanged and the answer is not a 500.
C2_ValidationBeforePool ==
    \A r \in Slots :
        (pc[r] # "idle" /\ Violates(req[r])) =>
            /\ Done(r)
            /\ res[r].status = 400
            /\ res[r].errors # <<>>
            /\ tr[r] = <<"res">>
            /\ r \notin pool
            /\ store = snapshot

\* A PUT with an empty customer_id on a table that has rows.
C2_Witness ==
    \E r \in Slots :
        /\ Done(r)
        /\ req[r].op = "PUT /orders/:id"
        /\ req[r].body.customer_id = BAD
        /\ req[r].body.ord_no # BAD
        /\ res[r].status = 400
        /\ Len(store) > 0

\* C3 as stated: when the acquire succeeded and the statement fails, the
\* connection is released before the 500 response is sent.
C3_ReleaseBeforeResponse ==
    \A r \in Slots :
        (Done(r) /\ StatementFailed(r)) =>
            /\ res[r].status = 500
            /\ Pos(tr[r], "end") > 0
            /\ Pos(tr[r], "end") < Pos(tr[r], "res")

\* C3 amended: when the acquire succeeded and the statement fails, the 500
\* response is sent first and the connection is released right after it, in
\* the same continuation of the handler, exactly once.
C3_ReleaseAfterResponse ==
    \A r \in Slots :
        (Done(r) /\ StatementFailed(r)) =>
            /\ res[r].status = 500
            /\ tr[r] = <<"getConnection", "query", "catch", "res", "end">>
            /\ r \notin pool

\* A DELETE whose statement the database rejected.
C3_Witness ==
    \E r \in Slots :
        /\ Done(r)
        /\ StatementFailed(r)
        /\ req[r].op = "DELETE /orders/:id"
        /\ Has(store, req[r].id)

\* C4 as stated: a successful POST /orders followed by GET /orders/{id},
\* id being the orderId of the POST's response, returns 200 with a row
\* whose four fields are those of the submitted payload.
C4_PostThenGetByOrderId ==
    \A r \in Slots :
        (Succeeded(r) /\ req[r].op = "POST /orders" /\ res[r].status = 201) =>
            LET g == GetOrder(store, res[r].orderId)
            IN  /\ g.status = 200
                /\ g.row = InsertedRow(req[r].body)

\* C5: when storage does not fail, GET /orders/{id} answers 404 "Order not
\* found" exactly when no order has order number id, and otherwise 200 with
\* the first matching row; it never changes the table.
C5_GetOrderById ==
    \A r \in Slots :
        (Done(r) /\ req[r].op = "GET /orders/:id") =>
            /\ store = snapshot
            /\ Succeeded(r) =>
                  IF Has(snapshot, req[r].id)
                  THEN /\ res[r].status = 200
                       /\ res[r].row = First(snapshot, req[r].id)
                  ELSE /\ res[r].status = 404
                       /\ res[r].message = "Order not found"
                       /\ res[r].row = NoRow

\* A GET on an order number that two different rows carry.
C5_Witness ==
    \E r \in Slots :
        /\ Succeeded(r)
        /\ req[r].op = "GET /orders/:id"
        /\ res[r].status = 200
        /\ \E i, j \in 1 .. Len(store) :
              /\ i < j
              /\ store[i].ord_no = req[r].id
              /\ store[j].ord_no = req[r].id
              /\ store[i] # store[j]

\* The confirmation message of each modifying route.
Confirmation(op) ==
    CASE op = "PATCH /orders/:id" -> "Order updated"
      [] op = "PUT /orders/:id" -> "Order replaced"
      [] OTHER -> "Order deleted"

\* C6: when storage does not fail, PATCH, PUT with a valid body and DELETE
\* on an order number that matches no row answer 200 with their
\* confirmation and leave the table unchanged; a successful DELETE answers
\* 200 and leaves no row with that order number, so a second DELETE in
\* succession answers 200 too and changes nothing.
C6_NoExistenceCheck ==
    \A r \in Slots :
        (Succeeded(r) /\ req[r].op \in {"PATCH /orders/:id", "PUT /orders/:id",
                                        "DELETE /orders/:id"}) =>
            /\ res[r].status = 200
            /\ res[r].message = Confirmation(req[r].op)
            /\ ~Has(snapshot, req[r].id) => store = snapshot
            /\ req[r].op = "DELETE /orders/:id" =>
                  /\ ~Has(store, req[r].id)
                  /\ Statement(store, req[r]) = store

\* A DELETE on an order number that no row of a non-empty table carries.
C6_Witness ==
    \E r \in Slots :
        /\ Succeeded(r)
        /\ req[r].op = "DELETE /orders/:id"
        /\ ~Has(snapshot, req[r].id)
        /\ Len(snapshot) > 0
        /\ res[r].status = 200

\* C7: after a successful PATCH /orders/{id} with a valid purch_amt on an
\* existing order, GET /orders/{id} returns that order with the patched
\* purch_amt and its other three fields as before, and every other order is
\* unchanged; after a successful DELETE /orders/{id}, GET /orders/{id}
\* returns 404.
C7_PatchThenGetThenDelete ==
    \A r \in Slots :
        /\ (/\ Succeeded(r)
            /\ req[r].op = "PATCH /orders/:id"
            /\ req[r].body.purch_amt \in Amts
            /\ Has(snapshot, req[r].id)) =>
              LET g == GetOrder(store, req[r].id)
                  old == First(snapshot, req[r].id)
              IN  /\ res[r].status = 200
                  /\ g.status = 200
                  /\ g.row = [old EXCEPT !.purch_amt = req[r].body.purch_amt]
                  /\ Len(store) = Len(snapshot)
                  /\ \A i \in 1 .. Len(snapshot) :
                        snapshot[i].ord_no # req[r].id => store[i] = snapshot[i]
        /\ (Succeeded(r) /\ req[r].op = "DELETE /orders/:id") =>
              /\ res[r].status = 200
              /\ GetOrder(store, req[r].id).status = 404
              /\ GetOrder(store, req[r].id).message = "Order not found"

\* A PATCH that changes the amount of one order while another order with a
\* different amount stays as it was.
C7_Witness ==
    \E r \in Slots :
        /\ Succeeded(r)
        /\ req[r].op = "PATCH /orders/:id"
        /\ req[r].body.purch_amt \in Amts
        /\ Has(snapshot, req[r].id)
        /\ First(snapshot, req[r].id).purch_amt # req[r].body.purch_amt
        /\ \E i \in 1 .. Len(store) :
              /\ store[i].ord_no # req[r].id
              /\ store[i].purch_amt # req[r].body.purch_amt

C9_PutReKeys ==
    \A r \in Slots :
        (/\ Succeeded(r)
         /\ req[r].op = "PUT /orders/:id"
         /\ Has(snapshot, req[r].id)
         /\ req[r].body.ord_no # req[r].id
         /\ ~Has(snapshot, req[r].body.ord_no)) =>
            /\ res[r].status = 200
            /\ GetOrder(store, req[r].body.ord_no).status = 200
            /\ GetOrder(store, req[r].body.ord_no).row = InsertedRow(req[r].body)
            /\ GetOrder(store, req[r].id).status = 404
            /\ Len(store) = Len(snapshot)

\* A PUT that re-keys an order and changes its amount and date.
C9_Witness ==
    \E r \in Slots :
        /\ Succeeded(r)
        /\ req[r].op = "PUT /orders/:id"
        /\ Has(snapshot, req[r].id)
        /\ req[r].body.ord_no # req[r].id
        /\ ~Has(snapshot, req[r].body.ord_no)
        /\ First(snapshot, req[r].id).purch_amt # req[r].body.purch_amt
        /\ First(snapshot, req[r].id).ord_date # req[r].body.ord_date

\* The requests whose statement the database has applied.
Executed == {r \in Slots : result[r].ok}

\* The orders in which the statements of the requests in E can be applied.
Orders(E) ==
    {o \in [1 .. Cardinality(E) -> E] : \A i, j \in 1 .. Cardinality(E) :
                                           o[i] = o[j] => i = j}

RECURSIVE ApplyInOrder(_, _)
\* Table s after the statements of the requests in o, one after another.
ApplyInOrder(s, o) ==
    IF o = <<>> THEN s
    ELSE ApplyInOrder(Statement(s, req[Head(o)]), Tail(o))

\* C10: requests handled concurrently, also on the same order number, each
\* issue one statement, and the table is at any time what applying the
\* statements executed so far, one after another in some order, makes of
\* the table the requests found.
C10_Serializable ==
    /\ \A r \in Slots : Count(tr[r], "query") <= 1
    /\ \E o \in Orders(Executed) : ApplyInOrder(snapshot, o) = store

\* A PATCH and a PUT on the same order have both been executed while both
\* handlers were in flight, and the order of the two statements matters.
C10_Witness ==
    \E p, q \in Slots :
        /\ req[p].op = "PATCH /orders/:id"
        /\ req[q].op = "PUT /orders/:id"
        /\ req[p].id = req[q].id
        /\ pc[p] = "reply" /\ pc[q] = "reply"
        /\ Executed = {p, q}
        /\ ApplyInOrder(snapshot, <<p, q>>) # ApplyInOrder(snapshot, <<q, p>>)

====
